---- MODULE Spec2Model ----
(***************************************************************************)
(* A model of the WhatsApp Cloud API webhook receiver.                     *)
(*                                                                         *)
(* The repository holds two versions of the server: src/index.js (the      *)
(* current one, which replies to every inbound message) and                *)
(* src/unnamed/part_000 (its predecessor, which only logs).  The variable  *)
(* `app` says which of the two is running.                                 *)
(*                                                                         *)
(* Conventions.                                                            *)
(*   - A JavaScript value is a record with a type tag t: undefined, null,  *)
(*     string (v: the string), array (v: a sequence), object (v: a         *)
(*     function from property names to values), buffer (b: raw-body id).   *)
(*   - The X-Hub-Signature-256 header is a string kept as a sequence of    *)
(*     one-character strings (field c), so that startsWith, slice and the  *)
(*     hex decoding are computed character by character.                   *)
(*   - Bytes are 0..255.  HMAC-SHA256 is modelled symbolically: a function *)
(*     of (key, raw body) into DigestBytes bytes that is injective on the  *)
(*     keys and bodies of the model (collision resistance).                *)
(***************************************************************************)
EXTENDS Integers, Sequences, FiniteSets, TLC

VARIABLES
    app,              \* which server file runs: "index.js" or "part_000"
    VERIFY_TOKEN,     \* process.env.WHATSAPP_VERIFY_TOKEN
    APP_SECRET,       \* process.env.META_APP_SECRET
    WHATSAPP_TOKEN,   \* process.env.WHATSAPP_TOKEN
    PHONE_NUMBER_ID,  \* process.env.PHONE_NUMBER_ID
    req,              \* the HTTP requests, by request id
    sends             \* the calls of sendTextMessage, in call order

config == <<app, VERIFY_TOKEN, APP_SECRET, WHATSAPP_TOKEN, PHONE_NUMBER_ID>>
vars == <<app, VERIFY_TOKEN, APP_SECRET, WHATSAPP_TOKEN, PHONE_NUMBER_ID, req, sends>>

-----------------------------------------------------------------------------
(* Bounds *)

\* Number of request slots of the concurrent specification.
MaxRequests == 2

\* Width of the modelled digest in bytes (the real one has 32).
DigestBytes == 2

-----------------------------------------------------------------------------
(* JavaScript values *)

Undefined == [t |-> "undefined"]
Null == [t |-> "null"]
Str(s) == [t |-> "string", v |-> s]
Arr(a) == [t |-> "array", v |-> a]
Obj(o) == [t |-> "object", v |-> o]
EmptyObj == [t |-> "object", v |-> <<>>]

\* x == null: property access on such a value throws a TypeError.
IsNullish(x) == x.t \in {"undefined", "null"}

\* ToBoolean(x): undefined, null and "" are falsy; objects, arrays, buffers
\* (also empty ones) and non-empty strings are truthy.
Truthy(x) ==
    CASE x.t \in {"undefined", "null"} -> FALSE
      [] x.t = "string" -> x.v # ""
      [] OTHER -> TRUE

\* x[k] for a non-nullish x: an own property of an object, else undefined.
Get(x, k) ==
    IF x.t = "object" /\ k \in DOMAIN x.v THEN x.v[k] ELSE Undefined

\* x === "s"
StrictEq(x, s) == x.t = "string" /\ x.v = s

\* `${x}` for the values a template literal meets in the model.
TemplateString(x) == IF x.t = "string" THEN x.v ELSE "[object Object]"

-----------------------------------------------------------------------------
(* Hex strings, buffers and the keyed digest *)

HexLower == <<"0","1","2","3","4","5","6","7","8","9","a","b","c","d","e","f">>
HexUpper == <<"0","1","2","3","4","5","6","7","8","9","A","B","C","D","E","F">>

IsHexChar(c) == \E i \in 1..16 : HexLower[i] = c \/ HexUpper[i] = c
HexVal(c) == (CHOOSE i \in 1..16 : HexLower[i] = c \/ HexUpper[i] = c) - 1

\* Buffer.toString('hex') / hmac.digest('hex'): two lower-case digits a byte.
RECURSIVE ToHex(_)
ToHex(bytes) ==
    IF bytes = <<>> THEN <<>>
    ELSE <<HexLower[(Head(bytes) \div 16) + 1], HexLower[(Head(bytes) % 16) + 1]>>
         \o ToHex(Tail(bytes))

\* The pair of characters that would make byte i of a hex string.
ValidPair(s, i) == IsHexChar(s[2 * i - 1]) /\ IsHexChar(s[2 * i])

\* Number of bytes Buffer.from(s, 'hex') yields: it decodes floor(len/2)
\* pairs and stops at the first pair holding a non-hex character.
DecodedLen(s) ==
    CHOOSE n \in 0..(Len(s) \div 2) :
        /\ \A i \in 1..n : ValidPair(s, i)
        /\ n = Len(s) \div 2 \/ ~ValidPair(s, n + 1)

\* Buffer.from(s, 'hex')
BufferFromHex(s) ==
    [i \in 1..DecodedLen(s) |-> 16 * HexVal(s[2 * i - 1]) + HexVal(s[2 * i])]

\* The keys that occur: the empty string, the application secret the
\* platform signs with, and a key of somebody else.
Keys == <<"", "app-secret", "other-secret">>
PlatformSecret == Keys[2]
KeyIdx(k) == CHOOSE i \in 1..Len(Keys) : Keys[i] = k

\* crypto.createHmac('sha256', key).update(raw).digest(): the digest bytes
\* of raw body number `raw` under `key`.
HmacSha256(key, raw) ==
    [i \in 1..DigestBytes |-> (37 * raw + 101 * KeyIdx(key) + 59 * i) % 256]

\* crypto.timingSafeEqual(a, b), called on buffers of equal length.
TimingSafeEqual(a, b) == \A i \in 1..Len(a) : a[i] = b[i]

-----------------------------------------------------------------------------
(* The inputs of the model: raw bodies, signature headers, queries *)

WABA == "whatsapp_business_account"

\* {from, text: {body}}
Msg(from, body) == Obj([from |-> Str(from), text |-> Obj([body |-> Str(body)])])
\* {field: "messages", value: {messages: [...]}}
MessagesChange(ms) == Obj([field |-> Str("messages"), value |-> Obj([messages |-> Arr(ms)])])
\* {field: "statuses", value: {statuses: [{id}]}}
StatusChange == Obj([field |-> Str("statuses"),
                     value |-> Obj([statuses |-> Arr(<<Obj([id |-> Str("wamid.1")])>>)])])
Entry(cs) == Obj([changes |-> Arr(cs)])
Envelope(o, es) == Obj([object |-> Str(o), entry |-> Arr(es)])

\* The raw request bodies that occur.  A raw body is a byte sequence; the
\* model keeps its number in this list, whether JSON.parse (strict mode of
\* body-parser) accepts it, and the value it parses to.
RawBodies == <<
    \* 1: one text message
    [json |-> TRUE, value |-> Envelope(WABA, <<Entry(<<MessagesChange(<<Msg("1555", "hi")>>)>>)>>)],
    \* 2: two entries; two messages and a status update, then one message
    [json |-> TRUE, value |-> Envelope(WABA,
        <<Entry(<<MessagesChange(<<Msg("1555", "hi"), Msg("1666", "yo")>>), StatusChange>>),
          Entry(<<MessagesChange(<<Msg("1777", "ok")>>)>>)>>)],
    \* 3: another object type, with a message inside
    [json |-> TRUE, value |-> Envelope("page", <<Entry(<<MessagesChange(<<Msg("1555", "hi")>>)>>)>>)],
    \* 4: {}
    [json |-> TRUE, value |-> EmptyObj],
    \* 5: the empty body (Content-Length: 0); body-parser yields {}
    [json |-> TRUE, value |-> EmptyObj],
    \* 6: bytes that are not JSON
    [json |-> FALSE, value |-> Undefined],
    \* 7: entry absent
    [json |-> TRUE, value |-> Obj([object |-> Str(WABA)])],
    \* 8: entry is not a list
    [json |-> TRUE, value |-> Obj([object |-> Str(WABA), entry |-> EmptyObj])],
    \* 9: an entry without changes
    [json |-> TRUE, value |-> Envelope(WABA, <<EmptyObj>>)],
    \* 10: a 'messages' change without value
    [json |-> TRUE, value |-> Envelope(WABA, <<Entry(<<Obj([field |-> Str("messages")])>>)>>)],
    \* 11: value.messages is a string
    [json |-> TRUE, value |-> Envelope(WABA,
        <<Entry(<<Obj([field |-> Str("messages"), value |-> Obj([messages |-> Str("x")])])>>)>>)],
    \* 12: a null message element
    [json |-> TRUE, value |-> Envelope(WABA, <<Entry(<<MessagesChange(<<Null>>)>>)>>)],
    \* 13: text absent, text.body empty, text null
    [json |-> TRUE, value |-> Envelope(WABA, <<Entry(<<MessagesChange(
        <<Obj([from |-> Str("1555")]), Msg("1666", ""),
          Obj([from |-> Str("1777"), text |-> Null])>>)>>)>>)],
    \* 14: an empty messages list
    [json |-> TRUE, value |-> Envelope(WABA, <<Entry(<<MessagesChange(<<>>)>>)>>)],
    \* 15: a well-formed entry, an entry without changes, a well-formed entry
    [json |-> TRUE, value |-> Envelope(WABA,
        <<Entry(<<MessagesChange(<<Msg("1555", "hi")>>)>>), EmptyObj,
          Entry(<<MessagesChange(<<Msg("1666", "yo")>>)>>)>>)],
    \* 16: a status update, and a 'messages' change whose value has no messages
    [json |-> TRUE, value |-> Envelope(WABA,
        <<Entry(<<StatusChange, Obj([field |-> Str("messages"), value |-> EmptyObj])>>)>>)],
    \* 17: a message without from
    [json |-> TRUE, value |-> Envelope(WABA,
        <<Entry(<<MessagesChange(<<Obj([text |-> Obj([body |-> Str("hi")])])>>)>>)>>)],
    \* 18: a top-level array
    [json |-> TRUE, value |-> Arr(<<>>)],
    \* 19: object is not a string and entry is not a list
    [json |-> TRUE, value |-> Obj([object |-> Null, entry |-> Str("x")])]
>>

AllBodies == 1..Len(RawBodies)

\* A raw body other than b.
OtherBody(b) == (b % Len(RawBodies)) + 1

\* A header value: absent, or a string of characters.
Chars(cs) == [t |-> "string", c |-> cs]

expectedPrefix == <<"s","h","a","2","5","6","=">>

ToUpper(c) ==
    IF \E i \in 1..16 : HexLower[i] = c
    THEN HexUpper[CHOOSE i \in 1..16 : HexLower[i] = c] ELSE c

\* The hex digit that differs from c in its lowest bit.
FlipBit(c) == HexLower[(IF HexVal(c) % 2 = 0 THEN HexVal(c) + 1 ELSE HexVal(c) - 1) + 1]

\* What the platform sends for raw body b: hmac_hex(b, secret).
SignatureOf(key, b) == ToHex(HmacSha256(key, b))

HeaderKinds == {"absent", "empty", "no-prefix", "valid", "other-body", "other-key",
                "empty-key", "flip-last", "flip-first", "upper-case", "trailing-junk",
                "trailing-digit", "truncated", "longer", "not-hex"}

\* The X-Hub-Signature-256 header of kind k on a request with raw body b.
SignatureHeader(k, b) ==
    LET sig == SignatureOf(PlatformSecret, b)
        n == Len(sig)
    IN CASE k = "absent" -> Undefined
         [] k = "empty" -> Chars(<<>>)
         [] k = "no-prefix" -> Chars(sig)
         [] k = "valid" -> Chars(expectedPrefix \o sig)
         [] k = "other-body" -> Chars(expectedPrefix \o SignatureOf(PlatformSecret, OtherBody(b)))
         [] k = "other-key" -> Chars(expectedPrefix \o SignatureOf(Keys[3], b))
         [] k = "empty-key" -> Chars(expectedPrefix \o SignatureOf(Keys[1], b))
         [] k = "flip-last" -> Chars(expectedPrefix \o [sig EXCEPT ![n] = FlipBit(sig[n])])
         [] k = "flip-first" -> Chars(expectedPrefix \o [sig EXCEPT ![1] = FlipBit(sig[1])])
         [] k = "upper-case" -> Chars(expectedPrefix \o [i \in 1..n |-> ToUpper(sig[i])])
         [] k = "trailing-junk" -> Chars(expectedPrefix \o sig \o <<"z", "z">>)
         [] k = "trailing-digit" -> Chars(expectedPrefix \o sig \o <<"a">>)
         [] k = "truncated" -> Chars(expectedPrefix \o SubSeq(sig, 1, n - 2))
         [] k = "longer" -> Chars(expectedPrefix \o sig \o <<"0", "0">>)
         [] k = "not-hex" -> Chars(expectedPrefix \o [i \in 1..n |-> "z"])

ContentTypes == {"application/json", "text/plain"}

\* Values of a query parameter and of an environment variable.
QueryValues(s) == {Undefined, Str(s), Str("other")}
EnvValues(s) == {Undefined, Str(""), Str(s)}

NoQuery == [mode |-> Undefined, token |-> Undefined, challenge |-> Undefined]

-----------------------------------------------------------------------------
(* The signature verifier *)

\* !x on a header or environment value: absent or the empty string.
HeaderMissing(h) == h.t = "undefined" \/ h.c = <<>>

\* signatureHeader.startsWith(expectedPrefix)
StartsWith(cs, prefix) ==
    Len(cs) >= Len(prefix) /\ SubSeq(cs, 1, Len(prefix)) = prefix

\* signatureHeader.slice(expectedPrefix.length)
Slice(cs, n) == SubSeq(cs, n + 1, Len(cs))

\* The outcome of a middleware: it calls next(), sends a status itself, or
\* throws (Express's default error handler then answers 500).
CallsNext == [next |-> TRUE, status |-> 0, threw |-> FALSE]
SendStatus(code) == [next |-> FALSE, status |-> code, threw |-> FALSE]
Throws == [next |-> FALSE, status |-> 0, threw |-> TRUE]

\* The comparison with the negation of timingSafeEqual left out.
DigestMismatch_notNegated(bufSig, bufDigest) ==
    Len(bufSig) # Len(bufDigest) \/ TimingSafeEqual(bufSig, bufDigest)

\* bufSig.length !== bufDigest.length || !crypto.timingSafeEqual(bufSig, bufDigest)
DigestMismatch(bufSig, bufDigest) ==
    Len(bufSig) # Len(bufDigest) \/ ~TimingSafeEqual(bufSig, bufDigest)

\* verifySignature answering 401 where it finds the secret or the raw body
\* missing.
verifySignature_401(h, rawBody, secret) ==
    IF HeaderMissing(h) \/ ~StartsWith(h.c, expectedPrefix) THEN SendStatus(401)
    ELSE IF ~Truthy(rawBody) \/ ~Truthy(secret) THEN SendStatus(401)
    ELSE LET bufSig == BufferFromHex(Slice(h.c, Len(expectedPrefix)))
             bufDigest == BufferFromHex(ToHex(HmacSha256(secret.v, rawBody.b)))
         IN IF DigestMismatch(bufSig, bufDigest) THEN SendStatus(401) ELSE CallsNext

\* verifySignature of index.js on a request with header h and captured
\* raw body rawBody (undefined or a buffer), under the secret `secret`.
verifySignature(h, rawBody, secret) ==
    IF HeaderMissing(h) \/ ~StartsWith(h.c, expectedPrefix) THEN SendStatus(401)
    ELSE IF ~Truthy(rawBody) \/ ~Truthy(secret) THEN SendStatus(500)
    ELSE LET receivedSignatureHex == Slice(h.c, Len(expectedPrefix))
             computedDigestHex == ToHex(HmacSha256(secret.v, rawBody.b))
             bufSig == BufferFromHex(receivedSignatureHex)
             bufDigest == BufferFromHex(computedDigestHex)
         IN IF DigestMismatch(bufSig, bufDigest) THEN SendStatus(401) ELSE CallsNext

\* verifySignature of part_000: no check of the secret or of the raw body;
\* createHmac throws on an undefined key, update throws on undefined data.
verifySignature_part000(h, rawBody, secret) ==
    IF HeaderMissing(h) THEN SendStatus(401)
    ELSE IF ~StartsWith(h.c, expectedPrefix) THEN SendStatus(401)
    ELSE IF secret.t = "undefined" \/ rawBody.t = "undefined" THEN Throws
    ELSE LET signature == Slice(h.c, Len(expectedPrefix))
             digest == ToHex(HmacSha256(secret.v, rawBody.b))
             bufSig == BufferFromHex(signature)
             bufDigest == BufferFromHex(digest)
         IN IF DigestMismatch(bufSig, bufDigest) THEN SendStatus(401) ELSE CallsNext

-----------------------------------------------------------------------------
(* The POST /webhook handler: traversal of the envelope *)

\* The result of running a piece of the handler: the calls of
\* sendTextMessage it made, in order, and whether it threw a TypeError.
NoCalls == [calls |-> <<>>, threw |-> FALSE]
TypeError == [calls |-> <<>>, threw |-> TRUE]
Then(first, rest) == [calls |-> first.calls \o rest.calls, threw |-> rest.threw]

\* message.text?.body || 'No Text Body'
IncomingText(message) ==
    LET text == Get(message, "text")
        body == IF IsNullish(text) THEN Undefined ELSE Get(text, "body")
    IN IF Truthy(body) THEN body ELSE Str("No Text Body")

\* The reply text built from the incoming text.
ReplyMessage(incomingText) ==
    "Hello! I see you sent: \"" \o TemplateString(incomingText)
        \o "\". I am your Node.js automated bot. Thanks for texting!"

\* The body of value.messages.forEach for one message: reading message.from
\* throws on null; otherwise one call sendTextMessage(from, replyMessage).
OnMessage(message) ==
    IF IsNullish(message) THEN TypeError
    ELSE [calls |-> <<[to |-> Get(message, "from"),
                       text |-> ReplyMessage(IncomingText(message))]>>,
          threw |-> FALSE]

\* xs.forEach(f) from element i on: an exception ends the loop.
RECURSIVE ForEachMessage(_, _)
ForEachMessage(ms, i) ==
    IF i > Len(ms) THEN NoCalls
    ELSE LET first == OnMessage(ms[i])
         IN IF first.threw THEN first ELSE Then(first, ForEachMessage(ms, i + 1))

\* The body of entry.changes.forEach for one change.
OnChange(change) ==
    IF IsNullish(change) THEN TypeError
    ELSE LET value == Get(change, "value")
             field == Get(change, "field")
         IN IF ~StrictEq(field, "messages") THEN NoCalls
            ELSE IF IsNullish(value) THEN TypeError
            ELSE IF ~Truthy(Get(value, "messages")) THEN NoCalls
            ELSE IF Get(value, "messages").t # "array" THEN TypeError
            ELSE ForEachMessage(Get(value, "messages").v, 1)

RECURSIVE ForEachChange(_, _)
ForEachChange(cs, i) ==
    IF i > Len(cs) THEN NoCalls
    ELSE LET first == OnChange(cs[i])
         IN IF first.threw THEN first ELSE Then(first, ForEachChange(cs, i + 1))

\* The body of body.entry.forEach for one entry.
OnEntry(entry) ==
    IF IsNullish(entry) THEN TypeError
    ELSE IF Get(entry, "changes").t # "array" THEN TypeError
    ELSE ForEachChange(Get(entry, "changes").v, 1)

RECURSIVE ForEachEntry(_, _)
ForEachEntry(es, i) ==
    IF i > Len(es) THEN NoCalls
    ELSE LET first == OnEntry(es[i])
         IN IF first.threw THEN first ELSE Then(first, ForEachEntry(es, i + 1))

\* The handler traversing body.entry whatever body.object is.
ProcessBody_noObjectCheck(body) ==
    IF IsNullish(body) THEN TypeError
    ELSE IF Get(body, "entry").t # "array" THEN TypeError
    ELSE ForEachEntry(Get(body, "entry").v, 1)

\* The handler up to its res.sendStatus(200): the calls of sendTextMessage
\* made for the parsed body, and whether a TypeError escaped.
ProcessBody(body) ==
    IF IsNullish(body) THEN TypeError
    ELSE IF ~StrictEq(Get(body, "object"), WABA) THEN NoCalls
    ELSE IF Get(body, "entry").t # "array" THEN TypeError
    ELSE ForEachEntry(Get(body, "entry").v, 1)

\* sendTextMessage without the check of its configuration: it posts always.
sendTextMessage_noGuard(token, phoneId) == "inflight"

\* sendTextMessage when its caller gets control back only after axios.post
\* has settled (a handler that awaits the send).
sendTextMessage_awaited(token, phoneId) ==
    IF ~Truthy(token) \/ ~Truthy(phoneId) THEN "skipped" ELSE "ok"

\* The state of a call of sendTextMessage when it returns to its caller:
\* skipped when WHATSAPP_TOKEN or PHONE_NUMBER_ID is not set, else
\* suspended at `await axios.post(...)` with the HTTP request in flight.
sendTextMessage(token, phoneId) ==
    IF ~Truthy(token) \/ ~Truthy(phoneId) THEN "skipped" ELSE "inflight"

-----------------------------------------------------------------------------
(* State *)

Requests == 1..MaxRequests

\* A request that has not arrived yet.
IdleRequest ==
    [pc |-> "idle",            \* idle, received, parsed, verified, responded
     method |-> "none",        \* GET or POST
     header |-> Undefined,     \* req.header('X-Hub-Signature-256')
     contentType |-> "none",
     raw |-> 0,                \* the bytes of the body: a number in RawBodies
     query |-> NoQuery,        \* req.query
     rawBody |-> Undefined,    \* req.rawBody
     body |-> Undefined,       \* req.body
     jsonParsed |-> FALSE,     \* the body has been through JSON.parse
     verdict |-> "none",       \* none, valid (next() called), rejected
     status |-> 0,             \* the response status, 0 while there is none
     by |-> "none",            \* who responded: bodyParser, verifySignature,
                               \*   handler, express (default error handler)
     resBody |-> Undefined]    \* the response body

Buffer(b) == [t |-> "buffer", b |-> b]

Init ==
    /\ app \in {"index.js", "part_000"}
    /\ VERIFY_TOKEN \in EnvValues("verify-token")
    /\ APP_SECRET \in EnvValues(PlatformSecret)
    /\ WHATSAPP_TOKEN \in {Undefined, Str("token")}
    /\ PHONE_NUMBER_ID \in {Undefined, Str("1234")}
    /\ req = [r \in Requests |-> IdleRequest]
    /\ sends = <<>>

-----------------------------------------------------------------------------
(* Operations *)

\* A POST /webhook arrives: header of a kind in `kinds`, raw body in
\* `bodies`, Content-Type in `ctypes`.
ReceivePost(r, kinds, bodies, ctypes) ==
    /\ req[r].pc = "idle"
    /\ \E k \in kinds, b \in bodies, ct \in ctypes :
         req' = [req EXCEPT ![r] = [IdleRequest EXCEPT
                    !.pc = "received", !.method = "POST",
                    !.header = SignatureHeader(k, b),
                    !.contentType = ct, !.raw = b]]
    /\ UNCHANGED <<config, sends>>

\* A GET /webhook arrives with the query parameters hub.mode,
\* hub.verify_token and hub.challenge.
ReceiveGet(r, tokens) ==
    /\ req[r].pc = "idle"
    /\ \E m \in QueryValues("subscribe"), tk \in tokens, ch \in {Undefined, Str("abc123")} :
         req' = [req EXCEPT ![r] = [IdleRequest EXCEPT
                    !.pc = "received", !.method = "GET",
                    !.query = [mode |-> m, token |-> tk, challenge |-> ch]]]
    /\ UNCHANGED <<config, sends>>

\* app.use(bodyParser.json({verify})): a request without a JSON body is
\* passed on with req.body = {}; otherwise the raw bytes are read, the
\* verify callback stores them in req.rawBody, and then the bytes are parsed:
\* on success req.body is the value and next() is called, on failure the
\* request is answered 400.
BodyParserJson(r) ==
    /\ req[r].pc = "received"
    /\ IF req[r].method = "GET" \/ req[r].contentType # "application/json"
       THEN req' = [req EXCEPT ![r].pc = "parsed", ![r].body = EmptyObj]
       ELSE IF RawBodies[req[r].raw].json
       THEN req' = [req EXCEPT ![r].pc = "parsed",
                               ![r].rawBody = Buffer(req[r].raw),
                               ![r].jsonParsed = TRUE,
                               ![r].body = RawBodies[req[r].raw].value]
       ELSE req' = [req EXCEPT ![r].pc = "responded",
                               ![r].rawBody = Buffer(req[r].raw),
                               ![r].jsonParsed = TRUE,
                               ![r].status = 400, ![r].by = "bodyParser"]
    /\ UNCHANGED <<config, sends>>

\* A verifier that sends its status without returning, and so goes on to
\* call next().
AfterVerify_noReturn(q, out) ==
    IF out.next THEN [q EXCEPT !.pc = "verified", !.verdict = "valid"]
    ELSE IF out.threw
    THEN [q EXCEPT !.pc = "responded", !.verdict = "rejected",
                   !.status = 500, !.by = "express"]
    ELSE [q EXCEPT !.pc = "verified", !.verdict = "rejected",
                   !.status = out.status, !.by = "verifySignature"]

\* The request after a middleware with outcome `out` has run.
AfterVerify(q, out) ==
    IF out.next THEN [q EXCEPT !.pc = "verified", !.verdict = "valid"]
    ELSE IF out.threw
    THEN [q EXCEPT !.pc = "responded", !.verdict = "rejected",
                   !.status = 500, !.by = "express"]
    ELSE [q EXCEPT !.pc = "responded", !.verdict = "rejected",
                   !.status = out.status, !.by = "verifySignature"]

\* index.js: the verifySignature middleware of POST /webhook.
VerifySignature(r) ==
    /\ app = "index.js"
    /\ req[r].pc = "parsed" /\ req[r].method = "POST"
    /\ req' = [req EXCEPT ![r] =
                 AfterVerify(req[r], verifySignature(req[r].header, req[r].rawBody, APP_SECRET))]
    /\ UNCHANGED <<config, sends>>

\* part_000: the verifySignature middleware of POST /webhook.
VerifySignature_part000(r) ==
    /\ app = "part_000"
    /\ req[r].pc = "parsed" /\ req[r].method = "POST"
    /\ req' = [req EXCEPT ![r] =
                 AfterVerify(req[r], verifySignature_part000(req[r].header, req[r].rawBody, APP_SECRET))]
    /\ UNCHANGED <<config, sends>>

\* The records of the calls of sendTextMessage a handler run makes for
\* request r.
NewSends(r, calls, state) ==
    [i \in 1..Len(calls) |->
        [req |-> r, to |-> calls[i].to, text |-> calls[i].text, state |-> state,
         attempts |-> IF state = "inflight" THEN 1 ELSE 0]]

\* The request after its handler ran with result `result`: 200 from the
\* handler, or 500 from Express when a TypeError escaped the handler.
AfterHandler(q, result) ==
    IF result.threw
    THEN [q EXCEPT !.pc = "responded", !.status = 500, !.by = "express"]
    ELSE [q EXCEPT !.pc = "responded", !.status = 200, !.by = "handler"]

\* The POST /webhook handler keeping a memory of the recipients it has
\* replied to: it calls sendTextMessage only for a recipient with no send yet.
WebhookPost_dedupe(r) ==
    /\ app = "index.js"
    /\ req[r].pc = "verified"
    /\ LET result == ProcessBody(req[r].body)
           fresh == SelectSeq(result.calls,
                              LAMBDA c : \A i \in 1..Len(sends) : sends[i].to # c.to)
       IN /\ sends' = sends \o NewSends(r, fresh,
                                        sendTextMessage(WHATSAPP_TOKEN, PHONE_NUMBER_ID))
          /\ req' = [req EXCEPT ![r] = AfterHandler(req[r], result)]
    /\ UNCHANGED config

\* index.js: the POST /webhook handler.  It runs to its end in one turn of
\* the event loop: every call of sendTextMessage returns at its first await
\* (or at once when it skips), and then the response is sent.
WebhookPost(r) ==
    /\ app = "index.js"
    /\ req[r].pc = "verified"
    /\ LET result == ProcessBody(req[r].body)
       IN /\ sends' = sends \o NewSends(r, result.calls,
                                        sendTextMessage(WHATSAPP_TOKEN, PHONE_NUMBER_ID))
          /\ req' = [req EXCEPT ![r] = AfterHandler(req[r], result)]
    /\ UNCHANGED config

\* part_000: the POST /webhook handler; the same traversal, which only logs.
WebhookPost_part000(r) ==
    /\ app = "part_000"
    /\ req[r].pc = "verified"
    /\ req' = [req EXCEPT ![r] = AfterHandler(req[r], ProcessBody(req[r].body))]
    /\ UNCHANGED <<config, sends>>

\* The GET /webhook handler (the same in both files).
WebhookGet(r) ==
    /\ req[r].pc = "parsed" /\ req[r].method = "GET"
    /\ LET mode == req[r].query.mode
           token == req[r].query.token
           challenge == req[r].query.challenge
       IN IF StrictEq(mode, "subscribe") /\ token = VERIFY_TOKEN
          THEN req' = [req EXCEPT ![r].pc = "responded", ![r].status = 200,
                                  ![r].by = "handler", ![r].resBody = challenge]
          ELSE req' = [req EXCEPT ![r].pc = "responded", ![r].status = 403,
                                  ![r].by = "handler"]
    /\ UNCHANGED <<config, sends>>

\* axios.post of send i resolves: sendTextMessage logs and ends.
SendSucceeds(i) ==
    /\ sends[i].state = "inflight"
    /\ sends' = [sends EXCEPT ![i].state = "ok"]
    /\ UNCHANGED <<config, req>>

\* axios.post of send i rejects and the catch block posts again.
SendFails_retry(i) ==
    /\ sends[i].state = "inflight"
    /\ sends[i].attempts < 3
    /\ sends' = [sends EXCEPT ![i].attempts = @ + 1]
    /\ UNCHANGED <<config, req>>

\* axios.post of send i rejects (network error or non-2xx response): the
\* catch block logs and sendTextMessage ends.
SendFails(i) ==
    /\ sends[i].state = "inflight"
    /\ sends' = [sends EXCEPT ![i].state = "failed"]
    /\ UNCHANGED <<config, req>>

-----------------------------------------------------------------------------
(* Specifications *)

\* One request, with every input of the model.
Next ==
    \/ ReceivePost(1, HeaderKinds, AllBodies, ContentTypes)
    \/ ReceiveGet(1, QueryValues("verify-token") \cup {Str("")})
    \/ BodyParserJson(1)
    \/ VerifySignature(1)
    \/ VerifySignature_part000(1)
    \/ WebhookPost(1)
    \/ WebhookPost_part000(1)
    \/ WebhookGet(1)
    \/ \E i \in 1..Len(sends) : SendSucceeds(i)
    \/ \E i \in 1..Len(sends) : SendFails(i)

Spec == Init /\ [][Next]_vars

\* A configured server: the secret and the verify token are set; the bearer
\* token may be missing.
InitConcurrent ==
    /\ app \in {"index.js", "part_000"}
    /\ VERIFY_TOKEN = Str("verify-token")
    /\ APP_SECRET = Str(PlatformSecret)
    /\ WHATSAPP_TOKEN \in {Undefined, Str("token")}
    /\ PHONE_NUMBER_ID = Str("1234")
    /\ req = [r \in Requests |-> IdleRequest]
    /\ sends = <<>>

\* Up to MaxRequests requests in any interleaving, with a few inputs each.
NextConcurrent ==
    \/ \E r \in Requests :
         \/ ReceivePost(r, {"valid", "flip-last"}, {1, 2}, {"application/json"})
         \/ ReceiveGet(r, {Str("verify-token")})
         \/ BodyParserJson(r)
         \/ VerifySignature(r)
         \/ VerifySignature_part000(r)
         \/ WebhookPost(r)
         \/ WebhookPost_part000(r)
         \/ WebhookGet(r)
    \/ \E i \in 1..Len(sends) : SendSucceeds(i)
    \/ \E i \in 1..Len(sends) : SendFails(i)

SpecConcurrent == InitConcurrent /\ [][NextConcurrent]_vars

-----------------------------------------------------------------------------
(* Vocabulary of the properties *)

\* The calls of sendTextMessage made for request r, in call order.
SendsOf(r) == SelectSeq(sends, LAMBDA s : s.req = r)

\* The header carries the algorithm prefix.
WellPrefixed(h) == ~HeaderMissing(h) /\ StartsWith(h.c, expectedPrefix)

\* The header is 'sha256=' followed by hmac_hex(raw body b, secret).
SignedWith(h, b, secret) ==
    h = Chars(expectedPrefix \o SignatureOf(secret.v, b))

\* Two strings of hexadecimal digits denote the same digest: same length
\* and the same digit value at every position.
SameHexDigits(a, b) ==
    /\ Len(a) = Len(b)
    /\ \A i \in 1..Len(a) : IsHexChar(a[i]) /\ IsHexChar(b[i]) /\ HexVal(a[i]) = HexVal(b[i])

\* The verifier has run on request r.
Verified(r) == req[r].method = "POST" /\ req[r].verdict # "none"

\* Request r has its response.
Responded(r) == req[r].pc = "responded"

\* The elements of x when x is a list, none otherwise.
ListOf(x) == IF x.t = "array" THEN x.v ELSE <<>>

\* The elements of value.messages of a change whose field is 'messages'.
MessagesOfChange(c) ==
    IF StrictEq(Get(c, "field"), "messages")
    THEN ListOf(Get(Get(c, "value"), "messages")) ELSE <<>>

RECURSIVE MessagesOfChanges(_)
MessagesOfChanges(cs) ==
    IF cs = <<>> THEN <<>> ELSE MessagesOfChange(Head(cs)) \o MessagesOfChanges(Tail(cs))

RECURSIVE MessagesOfEntries(_)
MessagesOfEntries(es) ==
    IF es = <<>> THEN <<>>
    ELSE MessagesOfChanges(ListOf(Get(Head(es), "changes"))) \o MessagesOfEntries(Tail(es))

\* The Inbound Messages of an envelope, in payload order: every element of
\* value.messages of every change whose field is 'messages'.
InboundMessages(body) == MessagesOfEntries(ListOf(Get(body, "entry")))

-----------------------------------------------------------------------------
(* Properties *)

C2_OnlyMatchingDigestPasses ==
    \A r \in Requests :
        (Verified(r) /\ req[r].verdict = "valid")
        => SameHexDigits(Slice(req[r].header.c, Len(expectedPrefix)),
                         SignatureOf(APP_SECRET.v, req[r].raw))

\* C3: a request is verified before its body is parsed as JSON: a body has
\* been through JSON parsing only if the verifier returned valid.
C3_VerifiedBeforeParsed ==
    \A r \in Requests :
        (req[r].method = "POST" /\ req[r].jsonParsed) => req[r].verdict = "valid"

\* C4: a call of sendTextMessage exists for a request only if the verifier
\* returned valid for it; a request the verifier rejected has its 401 or 500,
\* is at its end, and has no send.
C4_SendsOnlyAfterValidSignature ==
    /\ \A i \in 1..Len(sends) : req[sends[i].req].verdict = "valid"
    /\ \A r \in Requests :
         req[r].verdict = "rejected"
         => /\ SendsOf(r) = <<>>
            /\ (Responded(r) => req[r].status \in {401, 500} /\ req[r].by # "handler")

\* index.js has rejected a request whose payload carries messages, and no
\* send exists.
C4_Witness ==
    \E r \in Requests :
        /\ app = "index.js"
        /\ Responded(r)
        /\ req[r].verdict = "rejected"
        /\ req[r].status = 401
        /\ InboundMessages(req[r].body) # <<>>
        /\ sends = <<>>

\* C5: every POST /webhook whose signature verification passed is answered
\* 200, whatever its payload holds and whatever becomes of its sends.
C5_VerifiedIsAnswered200 ==
    \A r \in Requests :
        (req[r].verdict = "valid" /\ Responded(r)) => req[r].status = 200

\* C6: the 200 is sent without waiting for a send: in the step in which the
\* handler answers a request, every send of that request is still in flight
\* (or was skipped for missing configuration) in the state that carries the
\* response, and a send settles only for a request that has its response.
C6_AckNeverWaitsForSend ==
    [][ /\ \A r \in Requests :
             (req[r].status = 0 /\ req'[r].status = 200 /\ req'[r].method = "POST")
             => \A i \in 1..Len(sends') :
                    sends'[i].req = r => sends'[i].state \in {"inflight", "skipped"}
        /\ \A i \in 1..Len(sends) :
             (sends[i].state = "inflight" /\ sends'[i].state \in {"ok", "failed"})
             => req[sends[i].req].status # 0
      ]_vars

\* A request is acknowledged with 200 while a send it started is in flight.
C6_Witness ==
    \E r \in Requests :
        /\ req[r].status = 200
        /\ \E i \in 1..Len(sends) : sends[i].req = r /\ sends[i].state = "inflight"

\* C7: for a verified request whose envelope has object
\* 'whatsapp_business_account', the sends are in one-to-one correspondence,
\* in payload order, with the messages of the 'messages' changes, each with
\* `to` equal to the message's `from`.
C7_OneSendPerMessage ==
    \A r \in Requests :
        ( /\ app = "index.js"
          /\ req[r].verdict = "valid" /\ Responded(r)
          /\ StrictEq(Get(req[r].body, "object"), WABA) )
        => LET ms == InboundMessages(req[r].body)
           IN /\ Len(SendsOf(r)) = Len(ms)
              /\ \A i \in 1..Len(ms) : SendsOf(r)[i].to = Get(ms[i], "from")

\* C8: extraction never raises on a verified payload with object
\* 'whatsapp_business_account' in which a nested field is missing or
\* malformed: the request is answered 200 by the handler.
C8_ExtractionNeverRaises ==
    \A r \in Requests :
        ( /\ req[r].verdict = "valid" /\ Responded(r)
          /\ StrictEq(Get(req[r].body, "object"), WABA) )
        => req[r].by = "handler" /\ req[r].status = 200

\* C9: a POST /webhook whose signature header is absent or lacks the
\* 'sha256=' prefix is answered 401 and has no send, whatever its body is.
C9_MissingHeaderIs401 ==
    \A r \in Requests :
        (req[r].method = "POST" /\ Responded(r) /\ ~WellPrefixed(req[r].header))
        => req[r].status = 401 /\ SendsOf(r) = <<>>

C11_HandshakeContract ==
    \A r \in Requests :
        (req[r].method = "GET" /\ Responded(r))
        => /\ IF /\ StrictEq(req[r].query.mode, "subscribe")
                 /\ req[r].query.token.t = "string"
                 /\ VERIFY_TOKEN.t = "string"
                 /\ req[r].query.token.v = VERIFY_TOKEN.v
              THEN req[r].status = 200 /\ req[r].resBody = req[r].query.challenge
              ELSE req[r].status = 403 /\ req[r].resBody = Undefined
           /\ SendsOf(r) = <<>>

\* C12: a verified POST /webhook whose envelope object is anything but
\* 'whatsapp_business_account' (absent included) is answered 200 by the
\* handler and ignored: entry is not traversed (nothing throws, whatever
\* entry holds) and no send is made.
C12_OtherObjectIgnored ==
    \A r \in Requests :
        ( /\ req[r].verdict = "valid" /\ Responded(r)
          /\ ~StrictEq(Get(req[r].body, "object"), WABA) )
        => /\ req[r].status = 200 /\ req[r].by = "handler"
           /\ SendsOf(r) = <<>>

\* index.js has acknowledged a verified request of another object type
\* whose entry carries a message, and no send exists.
C12_Witness ==
    \E r \in Requests :
        /\ app = "index.js"
        /\ req[r].verdict = "valid" /\ Responded(r)
        /\ Get(req[r].body, "object") = Str("page")
        /\ InboundMessages(req[r].body) # <<>>
        /\ req[r].status = 200
        /\ sends = <<>>

\* The bearer credential or the phone-number-id is not configured.
SenderUnconfigured == ~Truthy(WHATSAPP_TOKEN) \/ ~Truthy(PHONE_NUMBER_ID)

\* C13: with WHATSAPP_TOKEN or PHONE_NUMBER_ID not configured, every call of
\* sendTextMessage returns without a network attempt and without raising:
\* the call is skipped, it never goes in flight, and the handler that made it
\* goes on to make its remaining calls and to answer 200.
C13_UnconfiguredSendSkips ==
    SenderUnconfigured
    => /\ \A i \in 1..Len(sends) : sends[i].state = "skipped" /\ sends[i].attempts = 0
       /\ \A r \in Requests :
            (app = "index.js" /\ req[r].verdict = "valid" /\ Responded(r)
             /\ StrictEq(Get(req[r].body, "object"), WABA)
             /\ ~ProcessBody(req[r].body).threw)
            => /\ req[r].status = 200
               /\ Len(SendsOf(r)) = Len(InboundMessages(req[r].body))

\* With the sender unconfigured, a request with three messages has been
\* handled: three calls, all skipped.
C13_Witness ==
    /\ SenderUnconfigured
    /\ Len(sends) = 3
    /\ \A i \in 1..Len(sends) : sends[i].state = "skipped"
    /\ \E r \in Requests : req[r].status = 200

\* C14: a failed send is swallowed.  Every call of sendTextMessage makes at
\* most one network attempt; the step in which a send fails changes nothing
\* but that send's state (no request, no response, no other send, no new
\* send, no configuration); and a failed send stays failed for good.
C14_FailedSendSwallowed ==
    [][\A i \in 1..Len(sends) :
          /\ sends'[i].attempts <= 1
          /\ sends[i].state = "failed" => sends'[i] = sends[i]
          /\ (sends[i].state = "inflight" /\ sends'[i].state = "failed")
             => /\ sends' = [sends EXCEPT ![i].state = "failed"]
                /\ req' = req
                /\ config' = config]_vars

\* One send has failed after its single attempt, its request was answered
\* 200, and sends of another request are still in flight or delivered.
C14_Witness ==
    \E i, j, k \in 1..Len(sends) :
        /\ sends[i].state = "failed" /\ sends[i].attempts = 1
        /\ req[sends[i].req].status = 200
        /\ sends[j].req # sends[i].req /\ sends[j].state = "inflight"
        /\ sends[k].state = "ok"

\* The hex part of a signature header does not decode in full to a digest:
\* a character that is no hex digit, an odd length, or a decoded length other
\* than the digest's.
MalformedHex(hx) ==
    \/ \E i \in 1..Len(hx) : ~IsHexChar(hx[i])
    \/ Len(hx) % 2 = 1
    \/ Len(hx) \div 2 # DigestBytes

\* C16: index.js, secret set and raw body captured: a 'sha256=' header whose
\* hex part holds a non-hex character, has odd length, or decodes to a length
\* other than the digest's fails verification and is answered 401 by the
\* verifier.
C16_MalformedHexIs401 ==
    \A r \in Requests :
        ( /\ app = "index.js"
          /\ Verified(r)
          /\ Truthy(APP_SECRET) /\ req[r].rawBody # Undefined
          /\ WellPrefixed(req[r].header)
          /\ MalformedHex(Slice(req[r].header.c, Len(expectedPrefix))) )
        => /\ req[r].verdict = "rejected"
           /\ req[r].status = 401
           /\ req[r].by = "verifySignature"

\* C17: every POST /webhook that has its response was either rejected by the
\* verifier with 401 or 500 or acknowledged by the handler with 200; no other
\* status comes out on the POST path.
C17_PostTerminalStates ==
    \A r \in Requests :
        (req[r].method = "POST" /\ Responded(r))
        => \/ req[r].by = "verifySignature" /\ req[r].status \in {401, 500}
           \/ req[r].by = "handler" /\ req[r].status = 200

\* The text of the Inbound Message of a message element: text.body when it
\* is present, the sentinel when text or text.body is absent.
SpecifiedText(message) ==
    LET text == Get(message, "text")
        body == IF IsNullish(text) THEN Undefined ELSE Get(text, "body")
    IN IF body.t = "string" THEN body ELSE Str("No Text Body")

\* C18: index.js, a verified envelope the handler acknowledged: every
\* message element of a 'messages' change gives exactly one reply, in payload
\* order, quoting message.text.body when that is present (the empty string
\* included) and 'No Text Body' only when text or text.body is absent.
C18_TextIsBodyWhenPresent ==
    \A r \in Requests :
        ( /\ app = "index.js"
          /\ req[r].verdict = "valid" /\ req[r].by = "handler"
          /\ StrictEq(Get(req[r].body, "object"), WABA) )
        => LET ms == InboundMessages(req[r].body)
               ss == SendsOf(r)
           IN /\ Len(ss) = Len(ms)
              /\ \A i \in 1..Len(ss) : ss[i].text = ReplyMessage(SpecifiedText(ms[i]))

\* C20: with the verify-token not configured no GET /webhook is answered
\* 200: every handshake is answered 403.
C20_UnsetVerifyTokenIs403 ==
    VERIFY_TOKEN = Undefined
    => \A r \in Requests :
          (req[r].method = "GET" /\ Responded(r)) => req[r].status = 403

\* What a request brings: its method, headers, query and body.
InputOf(q) ==
    [method |-> q.method, header |-> q.header, contentType |-> q.contentType,
     raw |-> q.raw, query |-> q.query]

\* The recipient and text of every send request r produced, in call order.
CallsOf(r) ==
    LET ss == SendsOf(r) IN [i \in 1..Len(ss) |-> [to |-> ss[i].to, text |-> ss[i].text]]

\* What came out of request r: its response and its sends.
OutcomeOf(r) ==
    [status |-> req[r].status, resBody |-> req[r].resBody, calls |-> CallsOf(r)]

\* C19: the server is stateless across requests.  In every step of every
\* interleaving of GET and POST requests and send completions: the
\* configuration is unchanged; any two answered requests with the same
\* method, headers, query and body have the same response status, response
\* body and sends (recipient and text), whatever came before or between
\* them; and a request once answered keeps its outcome, whatever other
\* requests and sends do afterwards.
C19_Stateless ==
    [][/\ config' = config
       /\ \A r, q \in Requests :
            (Responded(r)' /\ Responded(q)' /\ InputOf(req[r])' = InputOf(req[q])')
            => OutcomeOf(r)' = OutcomeOf(q)'
       /\ \A r \in Requests : Responded(r) => OutcomeOf(r)' = OutcomeOf(r)]_vars

\* Two requests with the same input were both answered 200 with sends, in
\* different circumstances: one send of the first has failed and another was
\* delivered, while those of the second are still in flight.
C19_Witness ==
    \E r, q \in Requests :
        /\ r # q
        /\ Responded(r) /\ Responded(q)
        /\ InputOf(req[r]) = InputOf(req[q])
        /\ req[r].status = 200
        /\ \E i, j \in 1..Len(sends) :
             /\ sends[i].req = r /\ sends[i].state = "failed"
             /\ sends[j].req = r /\ sends[j].state = "ok"
        /\ \A i \in 1..Len(sends) : sends[i].req = q => sends[i].state = "inflight"
        /\ SendsOf(q) # <<>>

====
